---- MODULE Spec2Model ----
(***************************************************************************)
(* TShop mock services server (scripts/mock-services.py).                  *)
(*                                                                         *)
(* Text values are sequences of one-character strings, so that slicing,    *)
(* replace() and title() are computed character by character.              *)
(* An image is a record of what was drawn on the canvas that is encoded.   *)
(***************************************************************************)
EXTENDS Integers, Sequences, FiniteSets, TLC

VARIABLES DESIGN_TEMPLATES, request, response, threads

vars == <<DESIGN_TEMPLATES, request, response, threads>>

(***************************************************************************)
(* Bounds of the model.                                                    *)
(***************************************************************************)
\* longest prompt handed to the synthesizer
MaxPromptLen == 25
\* largest canvas side requested
MaxDim == 600
\* largest value of int(time.time()) drawn for a request
MaxClock == 1
\* number of requests served at the same time
NumThreads == 2

(***************************************************************************)
(* Text helpers (Python str operations).                                   *)
(***************************************************************************)
LowerChars == <<"a", "b", "c", "d", "e", "f", "g", "h", "i", "j", "k", "l", "m", "n", "o", "p", "q", "r", "s", "t", "u", "v", "w", "x", "y", "z">>
UpperChars == <<"A", "B", "C", "D", "E", "F", "G", "H", "I", "J", "K", "L", "M", "N", "O", "P", "Q", "R", "S", "T", "U", "V", "W", "X", "Y", "Z">>
DigitChars == <<"0", "1", "2", "3", "4", "5", "6", "7", "8", "9">>

Range(s) == {s[i] : i \in DOMAIN s}

IndexIn(c, s) == CHOOSE i \in DOMAIN s : s[i] = c

IsLower(c) == c \in Range(LowerChars)
IsUpper(c) == c \in Range(UpperChars)
IsCased(c) == IsLower(c) \/ IsUpper(c)

\* str.upper() / str.lower() of one character
ToUpper(c) == IF IsLower(c) THEN UpperChars[IndexIn(c, LowerChars)] ELSE c
ToLower(c) == IF IsUpper(c) THEN LowerChars[IndexIn(c, UpperChars)] ELSE c

\* str.replace(old, new) for one-character old and new
Replace(s, old, new) == [i \in DOMAIN s |-> IF s[i] = old THEN new ELSE s[i]]

\* str.capitalize(): first character upper, every other character lower
Capitalize(s) == [i \in DOMAIN s |-> IF i = 1 THEN ToUpper(s[i]) ELSE ToLower(s[i])]

\* str.title(): a cased character is upper when it starts a word (the
\* character before it is not cased) and lower otherwise
Title(s) ==
    [i \in DOMAIN s |->
        IF i > 1 /\ IsCased(s[i - 1]) THEN ToLower(s[i]) ELSE ToUpper(s[i])]

\* s[:n]
Prefix(s, n) == SubSeq(s, 1, IF Len(s) < n THEN Len(s) ELSE n)

\* str(n) for n >= 0
RECURSIVE IntToStr(_)
IntToStr(n) ==
    IF n < 10 THEN <<DigitChars[n + 1]>>
    ELSE IntToStr(n \div 10) \o <<DigitChars[(n % 10) + 1]>>

(***************************************************************************)
(* The template catalog.                                                   *)
(***************************************************************************)
InitialTemplates ==
    << [category |-> "text",    style |-> "bold",
        colors |-> <<"#000000", "#FFFFFF", "#FF0000">>],
       [category |-> "graphic", style |-> "geometric",
        colors |-> <<"#0066CC", "#00CC66", "#CC6600">>],
       [category |-> "logo",    style |-> "modern",
        colors |-> <<"#333333", "#666666", "#999999">>],
       [category |-> "pattern", style |-> "abstract",
        colors |-> <<"#FF6B6B", "#4ECDC4", "#45B7D1">>] >>

\* random.choice(seq) with the draw i: reads seq, leaves it as it is
RandomChoice(seq, i) == seq[i]

\* the catalog after a request has drawn from it
TemplatesPopped(templates) == Tail(templates)
TemplatesAfterChoice(templates) == templates

(***************************************************************************)
(* generate_mock_design_image                                              *)
(***************************************************************************)
S_cap == <<"c", "a", "p">>
S_tote_bag == <<"t", "o", "t", "e", "_", "b", "a", "g">>
S_tshirt == <<"t", "s", "h", "i", "r", "t">>
S_Mock == <<"M", "o", "c", "k", " ">>
S_MockDesign == <<"M", "o", "c", "k", " ", "D", "e", "s", "i", "g", "n">>
S_Ellipsis == <<".", ".", ".">>

\* default width and height of generate_mock_design_image
DefaultSide == 400
\* number of prompt characters kept by the truncation
PromptKeep == 20
\* y coordinate of the prompt text
TextY == 180

\* An optional argument or parameter: <<>> when left out, <<v>> when given.
Omitted == <<>>
Given(v) == <<v>>
OrDefault(arg, default) == IF arg = Omitted THEN default ELSE arg[1]

\* The steps of the main rendering path that the environment (Pillow, the
\* fonts installed) can make raise; font loading is a separate flag.
Faults == {"none", "measure", "text", "caption", "encode"}

\* Image.new accepts a size whose sides are both >= 0 and raises otherwise
CanvasCreated(width, height) == width >= 0 /\ height >= 0

\* ImageFont.truetype(...) in its own try, ImageFont.load_default() otherwise
LoadFont(fontAvailable) == IF fontAvailable THEN "DejaVuSans-Bold" ELSE "default"

TextColorInverted(bg_color) == IF bg_color = "#000000" THEN "#000000" ELSE "#FFFFFF"
TextColor(bg_color) == IF bg_color = "#000000" THEN "#FFFFFF" ELSE "#000000"

DrawShapeTshirtOnly(product_type, bg_color) ==
    IF product_type = S_cap
    THEN [kind |-> "ellipse", box |-> <<50, 100, 350, 300>>, fill |-> bg_color]
    ELSE IF product_type = S_tshirt
    THEN [kind |-> "ellipse", box |-> <<100, 100, 300, 300>>, fill |-> bg_color]
    ELSE [kind |-> "rectangle", box |-> <<50, 50, 350, 350>>, fill |-> bg_color]
\* the shape drawn for a product type; box is [x0, y0, x1, y1]
DrawShape(product_type, bg_color) ==
    IF product_type = S_cap
    THEN [kind |-> "ellipse", box |-> <<50, 100, 350, 300>>, fill |-> bg_color]
    ELSE IF product_type = S_tote_bag
    THEN [kind |-> "rectangle", box |-> <<50, 50, 350, 350>>, fill |-> bg_color]
    ELSE [kind |-> "ellipse", box |-> <<100, 100, 300, 300>>, fill |-> bg_color]

PromptShortOffByOne(prompt) ==
    IF Len(prompt) >= PromptKeep THEN Prefix(prompt, PromptKeep) \o S_Ellipsis ELSE prompt
\* prompt[:20] + "..." if len(prompt) > 20 else prompt
PromptShort(prompt) ==
    IF Len(prompt) > PromptKeep THEN Prefix(prompt, PromptKeep) \o S_Ellipsis ELSE prompt

\* bbox[2] - bbox[0] of draw.textbbox((0, 0), text, font): the width the
\* font gives the text, one advance per character
TextWidth(text, font) == Len(text) * (IF font = "default" THEN 6 ELSE 15)

\* (width - text_width) // 2
TextX(width, text_width) == (width - text_width) \div 2

CaptionCapitalized(product_type) == S_Mock \o Capitalize(Replace(product_type, "_", " "))
\* f"Mock {product_type.replace('_', ' ').title()}"
Caption(product_type) == S_Mock \o Title(Replace(product_type, "_", " "))

FallbackFixedSize(width, height, drawn) ==
    [raised |-> FALSE, path |-> "fallback", format |-> "PNG",
     size |-> <<DefaultSide, DefaultSide>>, background |-> "#CCCCCC", shapes |-> <<>>,
     texts |-> << [pos |-> <<50, DefaultSide \div 2>>, text |-> S_MockDesign,
                   fill |-> "#000000", font |-> "default"] >>,
     shapeCalls |-> drawn]
\* the except branch; drawn is what the main path had drawn on the canvas
\* that is thrown away
Fallback(width, height, drawn) ==
    IF ~CanvasCreated(width, height)
    THEN [raised |-> TRUE, path |-> "none", error |-> "ValueError", shapeCalls |-> drawn]
    ELSE [raised |-> FALSE, path |-> "fallback", format |-> "PNG",
          size |-> <<width, height>>, background |-> "#CCCCCC", shapes |-> <<>>,
          texts |-> << [pos |-> <<50, height \div 2>>, text |-> S_MockDesign,
                        fill |-> "#000000", font |-> "default"] >>,
          shapeCalls |-> drawn]

\* env: fontAvailable, the two random draws tmpl and color, and the step
\* of the main path that raises (fault)
generate_mock_design_image(templates, prompt, product_type, width, height, env) ==
    IF ~CanvasCreated(width, height) THEN Fallback(width, height, <<>>)
    ELSE
    LET font       == LoadFont(env.fontAvailable)
        template   == RandomChoice(templates, env.tmpl)
        bg_color   == RandomChoice(template.colors, env.color)
        text_color == TextColor(bg_color)
        shape      == DrawShape(product_type, bg_color)
        text_y     == TextY
        prompt_short == PromptShort(prompt)
        text_x     == TextX(width, TextWidth(prompt_short, font))
        main_text  == [pos |-> <<text_x, text_y>>, text |-> prompt_short,
                       fill |-> text_color, font |-> font]
        caption    == [pos |-> <<10, 10>>, text |-> Caption(product_type),
                       fill |-> "#666666", font |-> font]
    IN  IF env.fault # "none" THEN Fallback(width, height, <<shape>>)
        ELSE [raised |-> FALSE, path |-> "main", format |-> "PNG",
              size |-> <<width, height>>, background |-> "white",
              shapes |-> <<shape>>, texts |-> <<main_text, caption>>,
              template |-> template, bg_color |-> bg_color,
              text_color |-> text_color, shapeCalls |-> <<shape>>]

(***************************************************************************)
(* Inputs.                                                                 *)
(***************************************************************************)
PromptChars == <<"a", "B", "é">>
MkPrompt(n) == [i \in 1..n |-> PromptChars[((i - 1) % 3) + 1]]
S_HelloWorld == <<"H", "e", "l", "l", "o", " ", "W", "o", "r", "l", "d">>
Prompts == {MkPrompt(n) : n \in {0, PromptKeep - 1, PromptKeep, PromptKeep + 1, MaxPromptLen}}
               \cup {S_HelloWorld}

S_unknown_type == <<"u", "n", "k", "n", "o", "w", "n", "_", "t", "y", "p", "e">>
S_CAP == <<"C", "A", "P">>
ProductTypes == {S_tshirt, S_cap, S_tote_bag, S_unknown_type, S_CAP, <<>>}

Dims == {-1, 200, MaxDim}
DimArgs == {Omitted} \cup {Given(d) : d \in Dims}

Envs(templates) ==
    { [fontAvailable |-> f, tmpl |-> t, color |-> c, fault |-> x] :
        f \in BOOLEAN, t \in DOMAIN templates,
        c \in 1..3, x \in Faults }

(***************************************************************************)
(* Route handlers.                                                         *)
(***************************************************************************)
S_DefaultDesign == <<"D", "e", "f", "a", "u", "l", "t", " ", "d", "e", "s", "i", "g", "n">>
S_default == <<"d", "e", "f", "a", "u", "l", "t">>
S_design_ == <<"d", "e", "s", "i", "g", "n", "_">>
S_png == <<".", "p", "n", "g">>
S_mock_design_ == <<"m", "o", "c", "k", "_", "d", "e", "s", "i", "g", "n", "_">>
S_instagram == <<"i", "n", "s", "t", "a", "g", "r", "a", "m">>
S_page_view == <<"p", "a", "g", "e", "_", "v", "i", "e", "w">>
S_payment == <<"p", "a", "y", "m", "e", "n", "t", "_", "i", "n", "t", "e", "n", "t", ".", "s", "u", "c", "c", "e", "e", "d", "e", "d">>
S_tshop_ == <<"t", "s", "h", "o", "p", "_">>
S_pf_ == <<"p", "f", "_">>
S_urlDesign == <<"/", "a", "p", "i", "/", "m", "o", "c", "k", "-", "d", "e", "s", "i", "g", "n", "-", "i", "m", "a", "g", "e", "?", "p", "r", "o", "m", "p", "t", "=">>
S_urlPT == <<"&", "p", "r", "o", "d", "u", "c", "t", "_", "t", "y", "p", "e", "=">>
S_urlId == <<"&", "i", "d", "=">>
S_urlProcessed == <<"/", "a", "p", "i", "/", "p", "r", "o", "c", "e", "s", "s", "e", "d", "-", "i", "m", "a", "g", "e", "?", "o", "r", "i", "g", "i", "n", "a", "l", "=">>
S_urlShare == <<"h", "t", "t", "p", "s", ":", "/", "/", "t", "s", "h", "o", "p", ".", "l", "o", "c", "a", "l", "/", "d", "e", "s", "i", "g", "n", "s", "/">>
S_WorksWellOn == <<"W", "o", "r", "k", "s", " ", "w", "e", "l", "l", " ", "o", "n", " ">>
S_d42 == <<"d", "4", "2">>

\* dict.get(key, default)
Get(d, key, default) == IF key \in DOMAIN d THEN d[key] ELSE default

\* the JSON objects with keys among keys and values in vals
Dicts(keys, vals) == UNION {[K -> vals] : K \in SUBSET keys}

JsonValues == {S_HelloWorld, S_cap}

\* what a POST request can carry: a JSON object, JSON that is no object,
\* text that is no JSON, or no JSON body at all
Bodies(keys) ==
    {[kind |-> "object", data |-> d] : d \in Dicts(keys, JsonValues)}
        \cup {[kind |-> "array"], [kind |-> "malformed"], [kind |-> "absent"]}

\* request.json: the parsed value; werkzeug raises BadRequest (400) on text
\* that is no JSON; without a JSON body it raises UnsupportedMediaType (415),
\* or returns None in the releases before that (returnsNone)
RequestJson(body, returnsNone) ==
    IF body.kind = "object" THEN [status |-> 200, kind |-> "dict", data |-> body.data]
    ELSE IF body.kind = "array" THEN [status |-> 200, kind |-> "list"]
    ELSE IF body.kind = "malformed" THEN [status |-> 400, kind |-> "none"]
    ELSE IF returnsNone THEN [status |-> 200, kind |-> "None"]
    ELSE [status |-> 415, kind |-> "none"]

\* the response when the handler cannot reach its first data.get: the error
\* request.json raised, or the AttributeError of .get on a list or on None
\* (500); <<>> when data is a dict
DataGetFails(j) ==
    IF j.status # 200 THEN <<[status |-> j.status, error |-> "HTTPException"]>>
    ELSE IF j.kind # "dict" THEN <<[status |-> 500, error |-> "AttributeError"]>>
    ELSE <<>>

\* int(time.time()) for the clock draw k
Now(k) == 1700000000 + k

generate_design(templates, body, draws) ==
    LET j == RequestJson(body, draws.returnsNone) IN
    IF DataGetFails(j) # <<>> THEN DataGetFails(j)[1]
    ELSE
    LET prompt       == Get(j.data, "prompt", S_DefaultDesign)
        product_type == Get(j.data, "product_type", S_tshirt)
        design_id    == S_mock_design_ \o IntToStr(Now(draws.now))
    IN  [status |-> 200,
         json |-> [success |-> TRUE,
                   design_id |-> design_id,
                   design_url |-> S_urlDesign \o prompt \o S_urlPT \o product_type
                                      \o S_urlId \o design_id,
                   prompt_used |-> prompt,
                   product_type |-> product_type,
                   processing_time |-> draws.processing_time,
                   style_notes |-> <<"Generated", RandomChoice(templates, draws.tmpl).style,
                                     "style design">>,
                   recommendations |-> << S_WorksWellOn \o product_type,
                                          "Consider trying different colors",
                                          "Great for casual wear" >>]]

mock_design_image_WrongDefault(templates, args, env) ==
    LET prompt       == OrDefault(args.prompt, S_DefaultDesign)
        product_type == OrDefault(args.product_type, S_tshirt)
        design_id    == OrDefault(args.id, S_default)
        img_buffer   == generate_mock_design_image(
                            templates, prompt, product_type, DefaultSide, DefaultSide, env)
    IN  IF img_buffer.raised THEN [status |-> 500, error |-> img_buffer.error]
        ELSE [status |-> 200, mimetype |-> "image/png", as_attachment |-> FALSE,
              download_name |-> S_design_ \o design_id \o S_png,
              body |-> img_buffer,
              synthesizerCalls |-> << [prompt |-> prompt, product_type |-> product_type,
                                       width |-> DefaultSide, height |-> DefaultSide] >>]
\* GET /api/mock-design-image; args holds the query parameters
mock_design_image(templates, args, env) ==
    LET prompt       == OrDefault(args.prompt, S_MockDesign)
        product_type == OrDefault(args.product_type, S_tshirt)
        design_id    == OrDefault(args.id, S_default)
        img_buffer   == generate_mock_design_image(
                            templates, prompt, product_type, DefaultSide, DefaultSide, env)
    IN  IF img_buffer.raised THEN [status |-> 500, error |-> img_buffer.error]
        ELSE [status |-> 200, mimetype |-> "image/png", as_attachment |-> FALSE,
              download_name |-> S_design_ \o design_id \o S_png,
              body |-> img_buffer,
              synthesizerCalls |-> << [prompt |-> prompt, product_type |-> product_type,
                                       width |-> DefaultSide, height |-> DefaultSide] >>]

process_image(body, draws) ==
    LET j == RequestJson(body, draws.returnsNone) IN
    IF DataGetFails(j) # <<>> THEN DataGetFails(j)[1]
    ELSE
    LET image_url  == Get(j.data, "image_url", <<>>)
        operations == Get(j.data, "operations", <<>>)
    IN  [status |-> 200,
         json |-> [success |-> TRUE,
                   processed_url |-> S_urlProcessed \o image_url,
                   operations_applied |-> operations,
                   processing_time |-> draws.processing_time]]

stripe_webhook(body, draws) ==
    LET j == RequestJson(body, draws.returnsNone) IN
    IF DataGetFails(j) # <<>> THEN DataGetFails(j)[1]
    ELSE
    LET event_type == Get(j.data, "type", S_payment)
    IN  [status |-> 200,
         json |-> [success |-> TRUE, processed |-> TRUE, event_type |-> event_type]]

create_printful_order(body, draws) ==
    LET j == RequestJson(body, draws.returnsNone) IN
    IF DataGetFails(j) # <<>> THEN DataGetFails(j)[1]
    ELSE
    LET mock_order == [id |-> draws.randint,
                       external_id |-> Get(j.data, "external_id",
                                           S_tshop_ \o IntToStr(Now(draws.now))),
                       status |-> "draft",
                       created |-> Now(draws.now),
                       items |-> Get(j.data, "items", <<>>)]
    IN  [status |-> 200, json |-> [code |-> 200, result |-> mock_order]]

create_printify_order(body, draws) ==
    LET j == RequestJson(body, draws.returnsNone) IN
    IF DataGetFails(j) # <<>> THEN DataGetFails(j)[1]
    ELSE
    LET mock_order == [id |-> S_pf_ \o IntToStr(draws.randint),
                       status |-> "pending",
                       created_at |-> Now(draws.now),
                       line_items |-> Get(j.data, "line_items", <<>>)]
    IN  [status |-> 200, json |-> mock_order]

social_share(body, draws) ==
    LET j == RequestJson(body, draws.returnsNone) IN
    IF DataGetFails(j) # <<>> THEN DataGetFails(j)[1]
    ELSE
    LET platform  == Get(j.data, "platform", S_instagram)
        design_id == Get(j.data, "design_id", <<>>)
    IN  [status |-> 200,
         json |-> [success |-> TRUE, platform |-> platform,
                   share_url |-> S_urlShare \o design_id,
                   message |-> "Design shared successfully!"]]

track_analytics(body, draws) ==
    LET j == RequestJson(body, draws.returnsNone) IN
    IF DataGetFails(j) # <<>> THEN DataGetFails(j)[1]
    ELSE
    LET event == Get(j.data, "event", S_page_view)
    IN  [status |-> 200,
         json |-> [success |-> TRUE, event |-> event, tracked |-> TRUE]]

health(draws) ==
    [status |-> 200,
     json |-> [status |-> "healthy", timestamp |-> Now(draws.now),
               services |-> <<"ai_generation", "image_processing", "fulfillment">>]]

get_products(provider) ==
    [status |-> 200,
     json |-> [success |-> TRUE, provider |-> provider,
               products |-> [tshirts |-> <<1, 2>>, caps |-> <<10, 11>>,
                             tote_bags |-> <<20, 21>>]]]

(***************************************************************************)
(* Requests served one at a time.                                          *)
(***************************************************************************)
PostHandlers ==
    {"generate_design", "process_image", "stripe_webhook", "create_printful_order",
     "create_printify_order", "social_share", "track_analytics"}

\* the JSON fields each POST handler reads
Fields(handler) ==
    CASE handler = "generate_design"       -> {"prompt", "product_type"}
      [] handler = "process_image"         -> {"image_url", "operations"}
      [] handler = "stripe_webhook"        -> {"type"}
      [] handler = "create_printful_order" -> {"external_id", "items"}
      [] handler = "create_printify_order" -> {"line_items"}
      [] handler = "social_share"          -> {"platform", "design_id"}
      [] handler = "track_analytics"       -> {"event"}

\* random.uniform(...) in tenths of a second, random.randint(1000000, 9999999)
Draws(templates) ==
    { [returnsNone |-> n, now |-> k, processing_time |-> p, randint |-> r, tmpl |-> t] :
        n \in BOOLEAN, k \in 0..MaxClock, p \in {5, 20},
        r \in {1000000, 9999999}, t \in DOMAIN templates }

\* only the draws a handler makes vary
DrawsOf(handler, templates) ==
    { d \in Draws(templates) :
        /\ handler # "generate_design" => d.tmpl = 1
        /\ handler \notin {"generate_design", "process_image"} => d.processing_time = 5
        /\ handler \notin {"create_printful_order", "create_printify_order"}
              => d.randint = 1000000
        /\ handler \notin {"generate_design", "create_printful_order",
                           "create_printify_order"} => d.now = 0 }

QueryPrompts == {Omitted, Given(<<>>), Given(S_HelloWorld), Given(MkPrompt(PromptKeep + 1))}
QueryProductTypes == {Omitted} \cup {Given(p) : p \in ProductTypes \ {S_CAP}}
QueryIds == {Omitted, Given(<<>>), Given(S_d42)}

Idle == request.handler = "none"

NoThread == [pc |-> "idle"]

Init ==
    /\ DESIGN_TEMPLATES = InitialTemplates
    /\ request = [handler |-> "none"]
    /\ response = [status |-> 0]
    /\ threads = [t \in 1..NumThreads |-> NoThread]

\* a direct call generate_mock_design_image(prompt, product_type[, width[, height]])
CallSynthesizer ==
    /\ Idle
    /\ \E prompt \in Prompts, product_type \in ProductTypes,
          wArg \in DimArgs, hArg \in DimArgs, env \in Envs(DESIGN_TEMPLATES) :
        LET width  == OrDefault(wArg, DefaultSide)
            height == OrDefault(hArg, DefaultSide)
        IN  /\ request' = [handler |-> "generate_mock_design_image",
                           prompt |-> prompt, product_type |-> product_type,
                           widthArg |-> wArg, heightArg |-> hArg,
                           width |-> width, height |-> height, env |-> env]
            /\ response' = generate_mock_design_image(
                               DESIGN_TEMPLATES, prompt, product_type, width, height, env)
    /\ DESIGN_TEMPLATES' = TemplatesAfterChoice(DESIGN_TEMPLATES)
    /\ UNCHANGED threads

\* the response of a POST handler to a body
Handle(handler, templates, body, draws) ==
    CASE handler = "generate_design"       -> generate_design(templates, body, draws)
      [] handler = "process_image"         -> process_image(body, draws)
      [] handler = "stripe_webhook"        -> stripe_webhook(body, draws)
      [] handler = "create_printful_order" -> create_printful_order(body, draws)
      [] handler = "create_printify_order" -> create_printify_order(body, draws)
      [] handler = "social_share"          -> social_share(body, draws)
      [] handler = "track_analytics"       -> track_analytics(body, draws)

Post(handler) ==
    /\ Idle
    /\ \E body \in Bodies(Fields(handler)), draws \in DrawsOf(handler, DESIGN_TEMPLATES) :
        /\ request' = [handler |-> handler, method |-> "POST", body |-> body,
                       draws |-> draws]
        /\ response' = Handle(handler, DESIGN_TEMPLATES, body, draws)
    /\ DESIGN_TEMPLATES' =
          IF handler = "generate_design" THEN TemplatesAfterChoice(DESIGN_TEMPLATES)
          ELSE DESIGN_TEMPLATES
    /\ UNCHANGED threads

PostGenerateDesign      == Post("generate_design")
PostProcessImage        == Post("process_image")
PostStripeWebhook       == Post("stripe_webhook")
PostCreatePrintfulOrder == Post("create_printful_order")
PostCreatePrintifyOrder == Post("create_printify_order")
PostSocialShare         == Post("social_share")
PostTrackAnalytics      == Post("track_analytics")

GetMockDesignImage ==
    /\ Idle
    /\ \E p \in QueryPrompts, pt \in QueryProductTypes, id \in QueryIds,
          env \in Envs(DESIGN_TEMPLATES) :
        LET args == [prompt |-> p, product_type |-> pt, id |-> id]
        IN  /\ request' = [handler |-> "mock_design_image", method |-> "GET",
                           args |-> args, env |-> env]
            /\ response' = mock_design_image(DESIGN_TEMPLATES, args, env)
    /\ DESIGN_TEMPLATES' = TemplatesAfterChoice(DESIGN_TEMPLATES)
    /\ UNCHANGED threads

GetHealth ==
    /\ Idle
    /\ \E k \in 0..MaxClock :
        /\ request' = [handler |-> "health", method |-> "GET", now |-> k]
        /\ response' = health([now |-> k])
    /\ UNCHANGED <<DESIGN_TEMPLATES, threads>>

GetProducts ==
    /\ Idle
    /\ \E provider \in {"printful", "printify", "other"} :
        /\ request' = [handler |-> "get_products", method |-> "GET",
                       provider |-> provider]
        /\ response' = get_products(provider)
    /\ UNCHANGED <<DESIGN_TEMPLATES, threads>>

\* the response has been sent; nothing of the request is kept
Complete ==
    /\ ~Idle
    /\ request' = [handler |-> "none"]
    /\ response' = [status |-> 0]
    /\ UNCHANGED <<DESIGN_TEMPLATES, threads>>

Next ==
    \/ CallSynthesizer
    \/ PostGenerateDesign
    \/ PostProcessImage
    \/ PostStripeWebhook
    \/ PostCreatePrintfulOrder
    \/ PostCreatePrintifyOrder
    \/ PostSocialShare
    \/ PostTrackAnalytics
    \/ GetMockDesignImage
    \/ GetHealth
    \/ GetProducts
    \/ Complete

Spec == Init /\ [][Next]_vars

(***************************************************************************)
(* Properties of the synthesizer and of the handlers, requests served one  *)
(* at a time (Spec).                                                       *)
(***************************************************************************)
\* a direct call of generate_mock_design_image has returned or raised
SynthDone == request.handler = "generate_mock_design_image"

\* the GET handler has answered with an image
ImageServed == request.handler = "mock_design_image" /\ response.status = 200

\* the state holds an image that came out of the main rendering path
Rendered ==
    \/ SynthDone /\ ~response.raised /\ response.path = "main"
    \/ ImageServed /\ response.body.path = "main"

CurImage == IF SynthDone THEN response ELSE response.body
CurPrompt ==
    IF SynthDone THEN request.prompt ELSE response.synthesizerCalls[1].prompt
CurProductType ==
    IF SynthDone THEN request.product_type
    ELSE response.synthesizerCalls[1].product_type

\* C1: generate_mock_design_image never propagates an error, whatever the
\* prompt, product_type, width and height: it returns an image (the
\* fallback image when a step of the main path fails).
C1_NeverRaises == SynthDone => ~response.raised

\* C2: for width > 0 and height > 0 the returned image has exactly the
\* requested width and height, on the main path and on the fallback path;
\* an omitted width or height is 400.
C2_RequestedSize ==
    /\ (SynthDone /\ request.width > 0 /\ request.height > 0) =>
          /\ ~response.raised
          /\ response.size = <<request.width, request.height>>
    /\ (SynthDone /\ ~response.raised) =>
          /\ request.widthArg = <<>> => response.size[1] = 400
          /\ request.heightArg = <<>> => response.size[2] = 400
    /\ ImageServed => response.body.size = <<400, 400>>

C2_Witness ==
    /\ SynthDone
    /\ ~response.raised
    /\ response.path = "fallback"
    /\ request.width = 200
    /\ request.height > 400
    /\ response.size = <<200, request.height>>

C4_ShapeWithinCanvas ==
    (SynthDone /\ request.width > 0 /\ request.height > 0 /\ response.path = "main") =>
        LET box == response.shapes[1].box
        IN  /\ 0 <= box[1] /\ box[3] <= request.width
            /\ 0 <= box[2] /\ box[4] <= request.height
            /\ box[1] + box[3] = request.width

\* C5: the text drawn as the main design is the prompt when it has at most
\* 20 characters, and its first 20 characters followed by "..." when it has
\* more; it is never longer than 23 characters.
C5_Truncation ==
    Rendered =>
        LET drawn == CurImage.texts[1].text
            p     == CurPrompt
        IN  /\ Len(drawn) <= 23
            /\ Len(p) <= 20 => drawn = p
            /\ Len(p) > 20 =>
                  /\ Len(drawn) = 23
                  /\ \A i \in 1..20 : drawn[i] = p[i]
                  /\ \A i \in 21..23 : drawn[i] = "."

C5_Witness ==
    /\ Rendered
    /\ Len(CurPrompt) = 21
    /\ Len(CurImage.texts[1].text) = 23

S_MockCap == <<"M", "o", "c", "k", " ", "C", "a", "p">>
S_MockToteBag == <<"M", "o", "c", "k", " ", "T", "o", "t", "e", " ", "B", "a", "g">>
S_MockTshirt == <<"M", "o", "c", "k", " ", "T", "s", "h", "i", "r", "t">>
S_MockUnknownTitle == <<"M", "o", "c", "k", " ", "U", "n", "k", "n", "o", "w", "n", " ", "T", "y", "p", "e">>
S_MockUnknownLower == <<"M", "o", "c", "k", " ", "U", "n", "k", "n", "o", "w", "n", " ", "t", "y", "p", "e">>

\* C6 as claimed: the caption is "Mock " + product_type, underscores turned
\* into spaces, title-cased, with "cap" giving "Mock Cap" and "unknown_type"
\* giving "Mock Unknown type", drawn at (10,10) in #666666.
C6_CaptionAsClaimed ==
    Rendered =>
        LET caption == CurImage.texts[2]
        IN  /\ caption.pos = <<10, 10>>
            /\ caption.fill = "#666666"
            /\ CurProductType = S_cap => caption.text = S_MockCap
            /\ CurProductType = S_unknown_type => caption.text = S_MockUnknownLower

\* C6 amended: as claimed, but title-casing capitalises every word, so
\* "unknown_type" gives "Mock Unknown Type" (and "tote_bag" "Mock Tote Bag").
C6_Caption ==
    Rendered =>
        LET caption == CurImage.texts[2]
            pt      == CurProductType
        IN  /\ caption.pos = <<10, 10>>
            /\ caption.fill = "#666666"
            /\ Len(caption.text) = 5 + Len(pt)
            /\ SubSeq(caption.text, 1, 5) = <<"M", "o", "c", "k", " ">>
            /\ \A i \in DOMAIN caption.text : caption.text[i] # "_"
            /\ pt = S_cap => caption.text = S_MockCap
            /\ pt = S_CAP => caption.text = S_MockCap
            /\ pt = S_tshirt => caption.text = S_MockTshirt
            /\ pt = S_tote_bag => caption.text = S_MockToteBag
            /\ pt = S_unknown_type => caption.text = S_MockUnknownTitle

C6_Witness ==
    /\ Rendered
    /\ CurProductType = S_unknown_type
    /\ CurImage.texts[2].text = S_MockUnknownTitle

\* C7: no POST handler rejects a request: whatever the body (a JSON object
\* with or without its fields, no body, malformed JSON, JSON that is no
\* object) the response is a success.
C7_NeverRejects == request.handler \in PostHandlers => response.status = 200

\* C8: GET /api/mock-design-image answers 200 image/png for every
\* combination of present and absent query parameters, with prompt
\* "Mock Design", product_type "tshirt" and id "default" standing in for the
\* absent ones; the synthesizer is called once, with that prompt and
\* product_type at 400 x 400, and the file name is design_{id}.png.
C8_MockDesignImage ==
    request.handler = "mock_design_image" =>
        LET a  == request.args
            p  == IF a.prompt = <<>> THEN S_MockDesign ELSE a.prompt[1]
            pt == IF a.product_type = <<>> THEN S_tshirt ELSE a.product_type[1]
            id == IF a.id = <<>> THEN S_default ELSE a.id[1]
        IN  /\ response.status = 200
            /\ response.mimetype = "image/png"
            /\ Len(response.synthesizerCalls) = 1
            /\ response.synthesizerCalls[1] =
                  [prompt |-> p, product_type |-> pt, width |-> 400, height |-> 400]
            /\ response.body.size = <<400, 400>>
            /\ response.body.format = "PNG"
            /\ response.body.path = "main" =>
                  /\ response.body.texts[1].text = PromptShort(p)
                  /\ response.body.shapes = <<DrawShape(pt, response.body.bg_color)>>
            /\ response.download_name = S_design_ \o id \o S_png

C8_Witness ==
    /\ request.handler = "mock_design_image"
    /\ request.args = [prompt |-> <<>>, product_type |-> <<>>, id |-> <<>>]
    /\ response.status = 200
    /\ response.body.path = "main"
    /\ response.body.texts[1].text = S_MockDesign

\* C9: on the main rendering path the background color is one of the
\* colors of the template drawn for the call, and the prompt text is white
\* (#FFFFFF) exactly when that background is black (#000000), black
\* (#000000) otherwise.
C9_Colors ==
    Rendered =>
        LET img == CurImage
        IN  /\ img.template = InitialTemplates[request.env.tmpl]
            /\ \E i \in DOMAIN img.template.colors : img.bg_color = img.template.colors[i]
            /\ img.shapes[1].fill = img.bg_color
            /\ img.texts[1].fill \in {"#FFFFFF", "#000000"}
            /\ img.texts[1].fill = "#FFFFFF" <=> img.bg_color = "#000000"

C9_Witness ==
    /\ Rendered
    /\ CurImage.bg_color = "#000000"
    /\ CurImage.texts[1].fill = "#FFFFFF"

(***************************************************************************)
(* Requests served at the same time, one thread per request (SpecConc).    *)
(* A handler that sleeps or calls the synthesizer takes two steps, and the *)
(* steps of the threads interleave.  Everything a handler keeps between    *)
(* its steps is local to its thread; DESIGN_TEMPLATES is the one module    *)
(* global the handlers read.                                               *)
(***************************************************************************)
Threads == 1..NumThreads

\* the bodies and draws tried when requests overlap
ConcBodies(handler) ==
    { b \in Bodies(Fields(handler)) :
        /\ b.kind \in {"object", "array"}
        /\ b.kind = "object" =>
              /\ DOMAIN b.data \in {{}, Fields(handler)}
              /\ \A k \in DOMAIN b.data : b.data[k] = S_cap }

ConcDraws(handler, templates) ==
    { d \in DrawsOf(handler, templates) :
        ~d.returnsNone /\ d.processing_time = 5 /\ d.randint = 1000000 }

ConcEnvs(templates) ==
    { e \in Envs(templates) : e.fontAvailable /\ e.color = 1 /\ e.fault = "none" }

ConcArgs ==
    { [prompt |-> Omitted, product_type |-> Omitted, id |-> Omitted],
      [prompt |-> Given(S_HelloWorld), product_type |-> Given(S_cap), id |-> Given(S_d42)] }

\* generate_design up to the sleep: request.json and the two data.get
BeginGenerateDesign(t) ==
    /\ threads[t].pc = "idle"
    /\ \E body \in ConcBodies("generate_design") :
        LET failed == DataGetFails(RequestJson(body, FALSE))
        IN  threads' = [threads EXCEPT ![t] =
                IF failed # <<>>
                THEN [pc |-> "responded", handler |-> "generate_design",
                      req |-> [body |-> body], resp |-> failed[1]]
                ELSE [pc |-> "sleeping", handler |-> "generate_design",
                      req |-> [body |-> body]]]
    /\ UNCHANGED <<DESIGN_TEMPLATES, request, response>>

\* generate_design after the sleep: the clock, the template draw, the answer
EndGenerateDesign(t) ==
    /\ threads[t].pc = "sleeping"
    /\ \E draws \in ConcDraws("generate_design", DESIGN_TEMPLATES) :
        threads' = [threads EXCEPT ![t] =
            [pc |-> "responded", handler |-> "generate_design",
             req |-> [body |-> threads[t].req.body, draws |-> draws],
             resp |-> generate_design(DESIGN_TEMPLATES, threads[t].req.body, draws)]]
    /\ DESIGN_TEMPLATES' = TemplatesAfterChoice(DESIGN_TEMPLATES)
    /\ UNCHANGED <<request, response>>

\* mock_design_image: the query parameters are read
BeginMockDesignImage(t) ==
    /\ threads[t].pc = "idle"
    /\ \E args \in ConcArgs :
        threads' = [threads EXCEPT ![t] =
            [pc |-> "rendering", handler |-> "mock_design_image",
             req |-> [args |-> args]]]
    /\ UNCHANGED <<DESIGN_TEMPLATES, request, response>>

\* mock_design_image: the synthesizer is called and the file is sent
EndMockDesignImage(t) ==
    /\ threads[t].pc = "rendering"
    /\ \E env \in ConcEnvs(DESIGN_TEMPLATES) :
        threads' = [threads EXCEPT ![t] =
            [pc |-> "responded", handler |-> "mock_design_image",
             req |-> [args |-> threads[t].req.args, env |-> env],
             resp |-> mock_design_image(DESIGN_TEMPLATES, threads[t].req.args, env)]]
    /\ DESIGN_TEMPLATES' = TemplatesAfterChoice(DESIGN_TEMPLATES)
    /\ UNCHANGED <<request, response>>

\* one of the POST handlers that read no module global
ServeOther(t) ==
    /\ threads[t].pc = "idle"
    /\ \E handler \in PostHandlers \ {"generate_design"} :
       \E body \in ConcBodies(handler), draws \in ConcDraws(handler, DESIGN_TEMPLATES) :
        threads' = [threads EXCEPT ![t] =
            [pc |-> "responded", handler |-> handler,
             req |-> [body |-> body, draws |-> draws],
             resp |-> Handle(handler, DESIGN_TEMPLATES, body, draws)]]
    /\ UNCHANGED <<DESIGN_TEMPLATES, request, response>>

\* the response has been sent; the thread's locals are dropped
Finish(t) ==
    /\ threads[t].pc = "responded"
    /\ threads' = [threads EXCEPT ![t] = NoThread]
    /\ UNCHANGED <<DESIGN_TEMPLATES, request, response>>

NextConc ==
    \E t \in Threads :
        \/ BeginGenerateDesign(t)
        \/ EndGenerateDesign(t)
        \/ BeginMockDesignImage(t)
        \/ EndMockDesignImage(t)
        \/ ServeOther(t)
        \/ Finish(t)

SpecConc == Init /\ [][NextConc]_vars

\* what a thread's handler answers to the thread's own request and draws
\* when the catalog is the one the module starts with
OwnResponse(th) ==
    IF th.handler = "mock_design_image"
    THEN mock_design_image(InitialTemplates, th.req.args, th.req.env)
    ELSE IF "draws" \in DOMAIN th.req
    THEN Handle(th.handler, InitialTemplates, th.req.body, th.req.draws)
    ELSE DataGetFails(RequestJson(th.req.body, FALSE))[1]

\* C10: the service is stateless per request: under every interleaving of
\* the requests DESIGN_TEMPLATES still is the initial catalog of 4
\* templates, and each response is the one the handler gives to that
\* request's own inputs, random draws and clock, whatever the other threads
\* did before or meanwhile.
C10_Stateless ==
    /\ DESIGN_TEMPLATES = InitialTemplates
    /\ Len(DESIGN_TEMPLATES) = 4
    /\ \A t \in Threads :
          threads[t].pc = "responded" => threads[t].resp = OwnResponse(threads[t])

C10_Witness ==
    /\ threads[1].pc = "responded"
    /\ threads[1].handler = "generate_design"
    /\ threads[1].resp.status = 200
    /\ threads[2].pc = "responded"
    /\ threads[2].handler = "mock_design_image"
    /\ threads[2].resp.status = 200

====
